---- MODULE Spec2Model ----
(***************************************************************************)
(* Model of the firls estimators (src/firls/sklearn.py) and of the sparse  *)
(* loss/gradient kernel (src/firls/sparse/glm.py).                         *)
(*                                                                         *)
(* Three specifications share the variables below:                         *)
(*   Spec / FairSpec : GLM.__init__, GLM.fit and the IRLS driver it calls  *)
(*   SpecSparse      : SparseGLM.__init__ and SparseGLM.fit                *)
(*   SpecKernel      : _intercept_dot and _glm_loss_and_grad               *)
(*                                                                         *)
(* Python's None is the empty tuple; an optional value v that is present  *)
(* is the one-element tuple <<v>>.                                         *)
(***************************************************************************)
EXTENDS Integers, Sequences, FiniteSets, TLC

VARIABLES
    pc,     \* position of the running program
    args,   \* the arguments the estimator was constructed with
    est,    \* attributes of the estimator object (self)
    data,   \* the (X, y) handed to fit
    irls,   \* local state of fit_irls (the IRLS driver)
    hist,   \* history of the driver: counts of the steps taken so far
    opt,    \* state of the external optimizer call of SparseGLM.fit
    kin,    \* inputs of a kernel function call
    kout    \* result of a kernel function call

vars == <<pc, args, est, data, irls, hist, opt, kin, kout>>

(***************************************************************************)
(* Bounds of the model.                                                    *)
(***************************************************************************)
MaxIters == 2       \* largest max_iters passed to GLM(...)
MaxLambda == 1      \* largest "small" lambda_l1 passed
FracBits == 6       \* fractional bits of the fixed-point numbers

(***************************************************************************)
(* float64 arithmetic, as fixed-point numbers: the integer v stands for    *)
(* the value v / Scale.  Sums, differences and comparisons are exact;      *)
(* products and quotients are rounded down to the grid.                    *)
(***************************************************************************)
NoneV == <<>>
Some(v) == <<v>>

Scale == 2 ^ FracBits
float(x) == x * Scale
Fx(n, d) == (n * Scale) \div d
RZero == float(0)
ROne == float(1)

Abs(x) == IF x < 0 THEN -x ELSE x
RMul(a, b) == (a * b) \div Scale
RDiv(a, b) == (a * Scale) \div b
RMax(a, b) == IF a <= b THEN b ELSE a
RMin(a, b) == IF a <= b THEN a ELSE b

\* (Intermediate values are bound as members of singleton sets, here and below,
\* which makes the model checker compute each of them once.)
RECURSIVE MaxUpTo(_, _)
MaxUpTo(sq, len) == IF len = 0 THEN 0 ELSE RMax(MaxUpTo(sq, len - 1), sq[len])
SeqMax(sq) == CHOOSE r \in { MaxUpTo(v, len) : v \in {sq}, len \in {Len(sq)} } : TRUE

RECURSIVE SumUpTo(_, _)
SumUpTo(sq, len) == IF len = 0 THEN 0 ELSE SumUpTo(sq, len - 1) + sq[len]
SeqSum(sq) == CHOOSE r \in { SumUpTo(v, len) : v \in {sq}, len \in {Len(sq)} } : TRUE

Dot(u, v) == SeqSum([k \in 1..Len(u) |-> RMul(u[k], v[k])])
AsFloat(v) == [k \in 1..Len(v) |-> float(v[k])]
AsFloat2(M) == [i \in 1..Len(M) |-> AsFloat(M[i])]
Zeros(k) == [i \in 1..k |-> RZero]
Ones(k) == [i \in 1..k |-> ROne]

(***************************************************************************)
(* src/firls/sklearn.py: configuration of the dense estimator.             *)
(***************************************************************************)
VALID_FAMILLY == {"gaussian", "binomial", "bernouilli", "poisson", "negativebinomial"}
VALID_SOLVER == {"ccd", "inv"}

Raised(kind) == [raised |-> kind, value |-> NoneV]
Returned(v) == [raised |-> "", value |-> v]

\* _check_solver(solver, bounds, lambda_l1)
check_solver(solver, bounds, lambda_l1) ==
    IF solver # NoneV
    THEN IF solver[1] \notin VALID_SOLVER
         THEN Raised("ValueError")
         ELSE IF lambda_l1 # NoneV /\ solver[1] # "ccd"
              THEN Raised("ValueError")
              ELSE Returned(solver[1])
    ELSE IF bounds # NoneV
         THEN Returned("ccd")
         ELSE IF lambda_l1 # NoneV
              THEN Returned("ccd")
              ELSE Returned("inv")

\* check_array(bounds): a 2-d array of finite numbers is returned as floats
check_array(b) == AsFloat2(b)

\* The attributes of an estimator before __init__ has run.
NoEstimator ==
    [kind |-> "", err |-> "", solver |-> "", lambda_l1 |-> RZero, lambda_l2 |-> RZero,
     family |-> "", bounds |-> NoneV, fit_intercept |-> FALSE, tol |-> RZero,
     max_iters |-> 0, irls_niter_ |-> NoneV, ccd_niter_ |-> NoneV,
     coef |-> NoneV, intercept |-> NoneV, info_ |-> NoneV, loss_value_ |-> NoneV]

\* GLM.__init__: the attributes it sets, or the exception it raises.
GLM_init(a) ==
    LET s == check_solver(a.solver, a.bounds, a.lambda_l1)
    IN  IF s.raised # ""
        THEN Raised(s.raised)
        ELSE IF a.family \notin VALID_FAMILLY
             THEN Raised("ValueError")
             ELSE Returned([NoEstimator EXCEPT
                    !.kind = "GLM",
                    !.solver = s.value,
                    !.lambda_l1 = IF a.lambda_l1 # NoneV THEN float(a.lambda_l1[1]) ELSE float(0),
                    !.lambda_l2 = IF a.lambda_l2 # NoneV THEN float(a.lambda_l2[1]) ELSE float(0),
                    !.family = a.family,
                    !.bounds = IF a.bounds = NoneV THEN NoneV ELSE check_array(a.bounds),
                    !.fit_intercept = a.fit_intercept,
                    !.tol = a.tol,
                    !.max_iters = a.max_iters])

\* Mutant: fit passes a budget one larger than the configured max_iters.
fit_irls_kwargs_budget(e, d) ==
    [X |-> AsFloat2(d.X), y |-> AsFloat(d.y), family |-> e.family,
     fit_intercept |-> e.fit_intercept, lambda_l1 |-> e.lambda_l1,
     lambda_l2 |-> e.lambda_l2, bounds |-> e.bounds, max_iters |-> e.max_iters + 1,
     tol |-> e.tol, solver |-> e.solver]

\* Mutant: fit passes lambda_l2 where lambda_l1 belongs.
fit_irls_kwargs_penalty(e, d) ==
    [X |-> AsFloat2(d.X), y |-> AsFloat(d.y), family |-> e.family,
     fit_intercept |-> e.fit_intercept, lambda_l1 |-> e.lambda_l2,
     lambda_l2 |-> e.lambda_l2, bounds |-> e.bounds, max_iters |-> e.max_iters,
     tol |-> e.tol, solver |-> e.solver]

\* The keyword arguments GLM.fit passes to fit_irls.
fit_irls_kwargs(e, d) ==
    [X |-> AsFloat2(d.X), y |-> AsFloat(d.y), family |-> e.family,
     fit_intercept |-> e.fit_intercept, lambda_l1 |-> e.lambda_l1,
     lambda_l2 |-> e.lambda_l2, bounds |-> e.bounds, max_iters |-> e.max_iters,
     tol |-> e.tol, solver |-> e.solver]

\* Mutant: the two iteration counts are unpacked in the wrong order.
GLM_fit_store_swapped(e, res) ==
    LET coef == res.coef_
    IN  [e EXCEPT !.irls_niter_ = Some(res.ccd_niter),
                  !.ccd_niter_ = Some(res.irls_niter),
                  !.coef = Some(IF e.fit_intercept THEN Tail(coef) ELSE coef),
                  !.intercept = Some(IF e.fit_intercept THEN Head(coef) ELSE RZero)]

\* GLM.fit after fit_irls returned (coef_, irls_niter, ccd_niter).
GLM_fit_store(e, res) ==
    LET coef == res.coef_
    IN  [e EXCEPT !.irls_niter_ = Some(res.irls_niter),
                  !.ccd_niter_ = Some(res.ccd_niter),
                  !.coef = Some(IF e.fit_intercept THEN Tail(coef) ELSE coef),
                  !.intercept = Some(IF e.fit_intercept THEN Head(coef) ELSE RZero)]


(***************************************************************************)
(* firls.irls (fit_irls and its inner solvers): the module is imported by  *)
(* sklearn.py; the model follows sections 4.3 - 4.5 of the specification.  *)
(* A problem prob is the record [X, resp, wts, l1, l2, bounds,             *)
(* fit_intercept, max_iters, tol]; coefficients beta are [c, w] with c the *)
(* intercept and w the p weights.                                          *)
(***************************************************************************)
FAMILIES == {"gaussian", "binomial", "poisson", "negativebinomial"}

SoftThreshold(u, thr) ==
    IF Abs(u) <= thr THEN RZero
    ELSE IF u > RZero THEN u - thr ELSE u + thr

Clip(v, lo, hi) == IF v < lo THEN RMin(lo, hi) ELSE RMin(v, hi)

\* The unconstrained single-coordinate optimum of coordinate j and its denominator.
CcdDenominator(j, prob) ==
    SeqSum([i \in 1..Len(prob.X) |->
                RMul(prob.wts[i], RMul(prob.X[i][j], prob.X[i][j]))]) + prob.l2

CcdUnconstrained(j, w, c, prob) ==
    LET pres(i) == prob.resp[i] - c - (Dot(prob.X[i], w) - RMul(prob.X[i][j], w[j]))
        rho == SeqSum([i \in 1..Len(prob.X) |->
                    RMul(RMul(prob.wts[i], prob.X[i][j]), pres(i))])
    IN  RDiv(rho, CcdDenominator(j, prob))

\* One coordinate update: soft-threshold, then clip to the box.
CcdUpdate(j, w, c, prob) ==
    CHOOSE r \in { IF prob.bounds = NoneV THEN st
                   ELSE Clip(st, prob.bounds[j][1], prob.bounds[j][2]) :
                   st \in { SoftThreshold(u, thr) :
                              u \in {CcdUnconstrained(j, w, c, prob)},
                              thr \in {RDiv(prob.l1, CcdDenominator(j, prob))} } } : TRUE

RECURSIVE CcdCoords(_, _, _, _)
CcdCoords(j, w, c, prob) ==
    IF j > Len(w) THEN w
    ELSE CHOOSE r \in { CcdCoords(j + 1, nw, c, prob) :
                            nw \in {[w EXCEPT ![j] = CcdUpdate(j, w, c, prob)]} } : TRUE

\* The intercept update: no L1 shrinkage, no box constraint.
CcdIntercept(w, prob) ==
    RDiv(SeqSum([i \in 1..Len(prob.X) |->
                    RMul(prob.wts[i], prob.resp[i] - Dot(prob.X[i], w))]),
         SeqSum(prob.wts))

CcdPass(beta, prob) ==
    CHOOSE nb \in { [c |-> c1, w |-> CcdCoords(1, beta.w, c1, prob)] :
                        c1 \in {IF prob.fit_intercept THEN CcdIntercept(beta.w, prob)
                                                      ELSE beta.c} } : TRUE

\* ||a - b||_2 < tol
NormLt(a, b, tol) ==
    LET dw == [k \in 1..Len(a.w) |-> a.w[k] - b.w[k]]
        dc == a.c - b.c
    IN  Dot(dw, dw) + RMul(dc, dc) < RMul(tol, tol)

RECURSIVE ccd_pwls(_, _, _)
ccd_pwls(beta, k, prob) ==
    CHOOSE r \in { IF NormLt(nb, beta, prob.tol) \/ k >= prob.max_iters
                      THEN [beta |-> nb, niter |-> k]
                      ELSE ccd_pwls(nb, k + 1, prob) :
                   nb \in {CcdPass(beta, prob)} } : TRUE

\* Direct inversion of the normal equations (A'WA + l2*I) b = A'W resp, where A
\* is X with a leading column of ones when an intercept is fitted (unpenalised).
\* The designs of Datasets have full column rank, so the system is regular.
Minor(M, r, q) ==
    [i \in 1..(Len(M) - 1) |-> [k \in 1..(Len(M) - 1) |->
        M[IF i < r THEN i ELSE i + 1][IF k < q THEN k ELSE k + 1]]]

RECURSIVE Det(_)
Det(M) ==
    IF Len(M) = 1 THEN M[1][1]
    ELSE SeqSum([k \in 1..Len(M) |->
            CHOOSE d \in { RMul(IF k % 2 = 1 THEN M[1][k] ELSE -M[1][k], Det(N)) :
                              N \in {Minor(M, 1, k)} } : TRUE])

ReplaceCol(M, q, v) ==
    [i \in 1..Len(M) |-> [k \in 1..Len(M) |-> IF k = q THEN v[i] ELSE M[i][k]]]

Augmented(prob) ==
    [i \in 1..Len(prob.X) |->
        IF prob.fit_intercept THEN <<ROne>> \o prob.X[i] ELSE prob.X[i]]

NormalMatrix(A, prob) ==
    LET off == IF prob.fit_intercept THEN 1 ELSE 0
    IN  [r \in 1..Len(A[1]) |-> [k \in 1..Len(A[1]) |->
            SeqSum([i \in 1..Len(A) |-> RMul(prob.wts[i], RMul(A[i][r], A[i][k]))])
            + (IF r = k /\ r > off THEN prob.l2 ELSE RZero)]]

NormalRhs(A, prob) ==
    [r \in 1..Len(A[1]) |->
        SeqSum([i \in 1..Len(A) |-> RMul(prob.wts[i], RMul(A[i][r], prob.resp[i]))])]

Cramer(M, rhs) ==
    CHOOSE b \in { [k \in 1..Len(M) |->
                      CHOOSE x \in { RDiv(Det(Mk), dt) : Mk \in {ReplaceCol(M, k, rhs)} } : TRUE] :
                   dt \in {Det(M)} } : TRUE

wls_inv(prob) ==
    LET off == IF prob.fit_intercept THEN 1 ELSE 0
    IN  CHOOSE r \in { [niter |-> 0,
                        beta |-> [c |-> IF prob.fit_intercept THEN b[1] ELSE RZero,
                                  w |-> [k \in 1..(Len(b) - off) |-> b[k + off]]]] :
                       b \in { Cramer(M, NormalRhs(A, prob)) :
                                 A \in {Augmented(prob)},
                                 M \in {NormalMatrix(Augmented(prob), prob)} } } : TRUE

\* The inner solve of one outer iteration, warm-started at beta.
InnerSolve(beta, prob, solver) ==
    IF solver = "inv" THEN wls_inv(prob) ELSE ccd_pwls(beta, 1, prob)

\* The working responses and working weights a reweighting may produce.  For the
\* gaussian family they are y and the (all-ones) sample weights.  The other
\* families go through exp / logistic of the current linear predictor, which has
\* no exact rational value: any of a few positive weight vectors and responses.
WorkingWeights(kw) ==
    IF kw.family = "gaussian" THEN {Ones(Len(kw.y))}
    ELSE {Ones(Len(kw.y)), [i \in 1..Len(kw.y) |-> IF i = 1 THEN float(2) ELSE ROne]}

WorkingResponses(kw) ==
    IF kw.family = "gaussian" THEN {kw.y}
    ELSE {kw.y, [i \in 1..Len(kw.y) |-> -kw.y[i]]}

Problem(kw, resp, wts) ==
    [X |-> kw.X, resp |-> resp, wts |-> wts, l1 |-> kw.lambda_l1, l2 |-> kw.lambda_l2,
     bounds |-> kw.bounds, fit_intercept |-> kw.fit_intercept,
     max_iters |-> kw.max_iters, tol |-> kw.tol]

\* The flat coefficient array fit_irls returns: the intercept first.
FlatCoef(kw, beta) == IF kw.fit_intercept THEN <<beta.c>> \o beta.w ELSE beta.w

NoIrls == [kw |-> NoneV, beta |-> NoneV, beta_old |-> NoneV, resp |-> NoneV,
           wts |-> NoneV, niter |-> 0, ccd_niter |-> 0]
NoHist == [reweights |-> 0, solves |-> 0, lastInner |-> 0, from |-> NoneV,
           warm |-> NoneV, solved |-> NoneV]
NoOpt == [calls |-> 0, evals |-> 0, routine |-> "", status |-> NoneV, x |-> NoneV, w0 |-> NoneV]

(***************************************************************************)
(* Inputs.                                                                 *)
(***************************************************************************)
Datasets ==
    { [X |-> << <<1, 0>>, <<0, 1>>, <<1, 1>> >>, y |-> <<1, 2, 3>>],
      [X |-> << <<1, 0>>, <<0, 1>>, <<1, 1>> >>, y |-> <<2, -1, 0>>] }

BoundsArgs ==
    { NoneV,
      << <<-1, 1>>, <<-1, 1>> >>,      \* well-formed, contains 0
      << <<1, 2>>, <<0, 1>> >>,        \* well-formed, excludes 0 for the first weight
      << <<1, 0>>, <<0, 1>> >> }       \* lower > upper in the first row

LambdaArgs == {NoneV} \cup {Some(v) : v \in 0..MaxLambda} \cup {Some(40 * MaxLambda)}
TolArgs == {Fx(1, 2)}

GLMArgs ==
    [solver : {NoneV, Some("ccd"), Some("inv"), Some("newton")},
     bounds : BoundsArgs,
     lambda_l1 : LambdaArgs,
     lambda_l2 : {NoneV, Some(1)},
     family : {"gaussian", "poisson", "bernouilli", "gamma"},
     fit_intercept : BOOLEAN,
     max_iters : 1..MaxIters,
     tol : TolArgs]

(***************************************************************************)
(* Spec: the life of a dense estimator.                                    *)
(***************************************************************************)
Init ==
    /\ pc = "new"
    /\ args = NoneV
    /\ est = NoEstimator
    /\ data = NoneV
    /\ irls = NoIrls
    /\ hist = NoHist
    /\ opt = NoOpt
    /\ kin = NoneV
    /\ kout = NoneV

\* GLM(...)
Construct ==
    /\ pc = "new"
    /\ \E a \in GLMArgs :
         LET r == GLM_init(a)
         IN  /\ args' = a
             /\ IF r.raised # ""
                THEN /\ pc' = "config_error"
                     /\ est' = [NoEstimator EXCEPT !.err = r.raised]
                ELSE /\ pc' = "constructed"
                     /\ est' = r.value
    /\ UNCHANGED <<data, irls, hist, opt, kin, kout>>

\* GLM.fit up to the call of fit_irls, and fit_irls up to its loop.
FitCall ==
    /\ pc = "constructed"
    /\ \E d \in Datasets :
         LET kw == fit_irls_kwargs(est, d)
         IN  /\ data' = d
             /\ IF kw.family \notin FAMILIES
                THEN /\ pc' = "config_error"
                     /\ est' = [est EXCEPT !.err = "ValueError"]
                     /\ irls' = irls
                ELSE /\ pc' = "Initializing"
                     /\ est' = est
                     /\ irls' = [NoIrls EXCEPT !.kw = kw]
    /\ hist' = NoHist
    /\ UNCHANGED <<args, opt, kin, kout>>

IrlsInitialize ==
    /\ pc = "Initializing"
    /\ irls' = [irls EXCEPT !.beta = [c |-> RZero, w |-> Zeros(Len(irls.kw.X[1]))]]
    /\ pc' = "Reweighting"
    /\ UNCHANGED <<args, est, data, hist, opt, kin, kout>>

IrlsReweight ==
    /\ pc = "Reweighting"
    /\ \E resp \in WorkingResponses(irls.kw), wts \in WorkingWeights(irls.kw) :
         irls' = [irls EXCEPT !.resp = resp, !.wts = wts]
    /\ hist' = [hist EXCEPT !.reweights = @ + 1, !.from = irls.beta]
    /\ pc' = "InnerSolving"
    /\ UNCHANGED <<args, est, data, opt, kin, kout>>

IrlsInnerSolve ==
    /\ pc = "InnerSolving"
    /\ \E r \in {InnerSolve(irls.beta, Problem(irls.kw, irls.resp, irls.wts),
                              irls.kw.solver)} :
           /\ irls' = [irls EXCEPT !.beta_old = irls.beta, !.beta = r.beta,
                                   !.niter = @ + 1, !.ccd_niter = r.niter]
           /\ hist' = [hist EXCEPT !.solves = @ + 1, !.lastInner = r.niter,
                                   !.warm = irls.beta, !.solved = r.beta]
    /\ pc' = "CheckConverged"
    /\ UNCHANGED <<args, est, data, opt, kin, kout>>

IrlsCheckConverged ==
    /\ pc = "CheckConverged"
    /\ IF NormLt(irls.beta, irls.beta_old, irls.kw.tol)
       THEN pc' = "Done"
       ELSE IF irls.niter >= irls.kw.max_iters
            THEN pc' = "Done"
            ELSE pc' = "Reweighting"
    /\ UNCHANGED <<args, est, data, irls, hist, opt, kin, kout>>

\* fit_irls returns; GLM.fit stores the result.
FitReturn ==
    /\ pc = "Done"
    /\ est' = GLM_fit_store(est, [coef_ |-> FlatCoef(irls.kw, irls.beta),
                                  irls_niter |-> irls.niter,
                                  ccd_niter |-> irls.ccd_niter])
    /\ pc' = "fitted"
    /\ UNCHANGED <<args, data, irls, hist, opt, kin, kout>>

Next ==
    \/ Construct
    \/ FitCall
    \/ IrlsInitialize
    \/ IrlsReweight
    \/ IrlsInnerSolve
    \/ IrlsCheckConverged
    \/ FitReturn

Spec == Init /\ [][Next]_vars

\* The program is sequential and runs every step it reaches.
FairSpec == Spec /\ WF_vars(Next)

(***************************************************************************)
(* Claims about the dense estimator.                                       *)
(***************************************************************************)
IrlsStates == {"Initializing", "Reweighting", "InnerSolving", "CheckConverged", "Done"}

\* bounds has one row per weight and lower <= upper in every row
WellFormedBounds(b, p) ==
    /\ Len(b) = p
    /\ \A j \in 1..p : b[j][1] <= b[j][2]

\* C1: a dense fit configured with well-formed bounds returns, whichever inner
\* solver was selected and however the fit stopped, only coefficients with
\* lower_j <= w_j <= upper_j.
C1_BoundsRespected ==
    (pc = "fitted" /\ est.bounds # NoneV /\ WellFormedBounds(est.bounds, Len(data.X[1])))
        => \A j \in 1..Len(est.coef[1]) :
              est.bounds[j][1] <= est.coef[1][j] /\ est.coef[1][j] <= est.bounds[j][2]

\* C2: with solver = 'inv', GLM(...) raises exactly when lambda_l1 is nonzero; with
\* lambda_l1 equal to 0, an explicitly passed 0 included, it is accepted and
\* selects 'inv'.
C2_InvRejectedIffL1Nonzero ==
    (pc # "new" /\ args.solver = Some("inv") /\ args.family \in VALID_FAMILLY)
        => IF args.lambda_l1 # NoneV /\ args.lambda_l1[1] # 0
           THEN est.kind = "" /\ est.err = "ValueError"
           ELSE est.kind = "GLM" /\ est.solver = "inv"

\* C5: every IRLS fit terminates: Initializing leads to Done; Done is reached
\* on convergence or with the budget exhausted; what fit keeps is the result of
\* the last inner solve and an outer-iteration count <= max_iters.
C5_FitTerminates ==
    /\ (pc = "Initializing") ~> (pc = "Done")
    /\ [](pc = "Done" =>
            /\ irls.niter >= 1
            /\ \/ NormLt(irls.beta, irls.beta_old, irls.kw.tol)
               \/ irls.niter = est.max_iters)
    /\ [](pc = "fitted" =>
            /\ est.err = ""
            /\ est.irls_niter_[1] <= est.max_iters
            /\ est.coef[1] = hist.solved.w
            /\ est.fit_intercept => est.intercept[1] = hist.solved.c)

C5_Witness ==
    /\ pc = "fitted"
    /\ est.irls_niter_[1] = est.max_iters
    /\ est.max_iters > 1
    /\ ~NormLt(irls.beta, irls.beta_old, irls.kw.tol)

\* C9: the driver cycles Reweighting -> InnerSolving -> CheckConverged; every
\* inner solve follows exactly one reweighting, made from the coefficients of
\* the previous outer iteration; Done is entered from CheckConverged only; the
\* outer count fit keeps is the number of inner solves and the inner count is
\* that of the last inner solve.
C9_StrictCycle ==
    [][ /\ (pc = "Initializing" /\ pc' # pc) => pc' = "Reweighting"
        /\ (pc = "Reweighting" /\ pc' # pc) => pc' = "InnerSolving"
        /\ (pc = "InnerSolving" /\ pc' # pc) => pc' = "CheckConverged"
        /\ (pc = "CheckConverged" /\ pc' # pc) => pc' \in {"Reweighting", "Done"}
        /\ (pc' = "Done" /\ pc' # pc) => pc = "CheckConverged"
        /\ (pc' = "InnerSolving")
              => /\ hist'.reweights = hist'.solves + 1
                 /\ hist'.from = irls'.beta
                 /\ hist'.solves > 0 => hist'.from = hist'.solved
        /\ (pc' \in {"CheckConverged", "Done", "fitted"})
              => /\ hist'.reweights = hist'.solves
                 /\ hist'.warm = hist'.from
        /\ (pc' = "fitted")
              => /\ est'.irls_niter_ = Some(hist'.solves)
                 /\ est'.ccd_niter_ = Some(hist'.lastInner) ]_vars

C9_Witness ==
    /\ pc = "fitted"
    /\ est.solver = "ccd"
    /\ hist.solves = 2
    /\ hist.lastInner = 1

\* The largest magnitude the numerator of a coordinate's unconstrained optimum
\* can take in a solve of prob warm-started at warm, plus one grid unit.
DominantL1(prob, warm) ==
    LET n == Len(prob.X)
        p == Len(warm.w)
        reach == [i \in 1..n |-> Abs(prob.resp[i])
                    + SeqSum([k \in 1..p |-> RMul(Abs(prob.X[i][k]), Abs(warm.w[k]))])]
        m == SeqMax(reach)
        cmax == RMax(Abs(warm.c), m)
        col == [j \in 1..p |-> SeqSum([i \in 1..n |->
                    RMul(prob.wts[i], RMul(Abs(prob.X[i][j]), m + cmax))])]
    IN  SeqMax(col) + ROne

ZeroInBox(b, j) == b = NoneV \/ (b[j][1] <= RZero /\ RZero <= b[j][2])

LastProblem == Problem([irls.kw EXCEPT !.lambda_l1 = est.lambda_l1, !.bounds = est.bounds],
                       irls.resp, irls.wts)

\* C10 as stated: after a CCD solve, the last coordinate is exactly zero whenever
\* its unconstrained optimum is within lambda_l1/denominator, and with lambda_l1
\* at or above the dominance level every weight is exactly zero.
C10_Original ==
    (pc = "CheckConverged" /\ est.solver = "ccd")
        => LET p == Len(irls.beta.w)
               prob == LastProblem
           IN  /\ Abs(CcdUnconstrained(p, irls.beta.w, irls.beta.c, prob))
                        <= RDiv(est.lambda_l1, CcdDenominator(p, prob))
                     => irls.beta.w[p] = RZero
               /\ est.lambda_l1 >= DominantL1(prob, hist.warm)
                     => \A j \in 1..p : irls.beta.w[j] = RZero

\* C10 amended: the same for the coordinates whose box contains zero (or with no
\* bounds); the intercept is not shrunk: from zero weights it is the weighted
\* mean of the working response, however large lambda_l1 is.
C10_SoftThresholdDominance ==
    (pc = "CheckConverged" /\ est.solver = "ccd")
        => LET p == Len(irls.beta.w)
               prob == LastProblem
           IN  /\ ( /\ Abs(CcdUnconstrained(p, irls.beta.w, irls.beta.c, prob))
                            <= RDiv(est.lambda_l1, CcdDenominator(p, prob))
                    /\ ZeroInBox(est.bounds, p) )
                     => irls.beta.w[p] = RZero
               /\ est.lambda_l1 >= DominantL1(prob, hist.warm)
                     => /\ \A j \in 1..p : ZeroInBox(est.bounds, j) => irls.beta.w[j] = RZero
                        /\ ( /\ est.fit_intercept
                             /\ \A j \in 1..p : ZeroInBox(est.bounds, j)
                             /\ hist.warm.w = Zeros(p) )
                              => irls.beta.c = RDiv(Dot(prob.wts, prob.resp), SeqSum(prob.wts))

C10_Witness ==
    /\ pc = "CheckConverged"
    /\ est.solver = "ccd"
    /\ est.lambda_l1 >= DominantL1(LastProblem, hist.warm)
    /\ est.fit_intercept
    /\ est.bounds # NoneV
    /\ \A j \in 1..Len(irls.beta.w) : ZeroInBox(est.bounds, j) /\ irls.beta.w[j] = RZero
    /\ irls.beta.c # RZero
    /\ CcdUnconstrained(1, irls.beta.w, irls.beta.c, LastProblem) # RZero

(***************************************************************************)
(* SpecSparse: the life of a SparseGLM estimator (src/firls/sklearn.py).   *)
(***************************************************************************)
SPARSE_SOLVERS == {"lbfgs", "tcn"}

\* SparseGLM.__init__: stores its arguments; nothing is validated.
SparseGLM_init(a) ==
    Returned([NoEstimator EXCEPT
        !.kind = "SparseGLM",
        !.family = a.family,
        !.solver = a.solver,
        !.fit_intercept = a.fit_intercept,
        !.lambda_l2 = float(a.lambda_l2),
        !.bounds = IF a.bounds = NoneV THEN NoneV ELSE check_array(a.bounds)])

\* SparseGLM.fit up to the optimizer call: the starting point w0 and the
\* optimizer chosen, or the exception of reading the unbound local coef.
SparseGLM_fit_call(e, d) ==
    LET p == Len(d.X[1])
        w0 == IF e.fit_intercept THEN Zeros(p + 1) ELSE Zeros(p)
    IN  IF e.solver = "lbfgs" THEN Returned([routine |-> "fmin_l_bfgs_b", w0 |-> w0])
        ELSE IF e.solver = "tcn" THEN Returned([routine |-> "fmin_tnc", w0 |-> w0])
        ELSE Raised("UnboundLocalError")

\* The loss+gradient callback of firls.loss_and_grad handed to the optimizer
\* (section 4.1 and 4.6 of the specification; trailing intercept).  The gaussian
\* family is computed; the other families go through exp / log and are kept as
\* a tag naming the family.
loss_and_grad(w, X, y, family, l2) ==
    LET p == Len(X[1])
        ww == SubSeq(w, 1, p)
        c == IF Len(w) = p + 1 THEN w[p + 1] ELSE RZero
        dz == [i \in 1..Len(X) |-> -2 * (y[i] - (Dot(X[i], ww) + c))]
    IN  IF family = "gaussian"
        THEN Returned([loss |-> SeqSum([i \in 1..Len(X) |-> RMul(dz[i], dz[i]) \div 4])
                                + RMul(Fx(1, 2), RMul(l2, Dot(ww, ww))),
                       grad |-> [j \in 1..Len(w) |->
                                    IF j <= p
                                    THEN SeqSum([i \in 1..Len(X) |-> RMul(X[i][j], dz[i])])
                                         + RMul(l2, w[j])
                                    ELSE SeqSum(dz)]])
        ELSE IF family \in FAMILIES
             THEN Returned([loss |-> <<family>>, grad |-> <<family>>])
             ELSE Raised("ValueError")

\* SparseGLM.fit from the optimizer's return (x, status) to its end.
SparseGLM_fit_store(e, d, routine, x, status) ==
    LET lg == loss_and_grad(x, AsFloat2(d.X), AsFloat(d.y), e.family, e.lambda_l2)
        e1 == IF routine = "fmin_l_bfgs_b"
              THEN [e EXCEPT !.info_ = Some([warnflag |-> status])]
              ELSE e
    IN  IF lg.raised # ""
        THEN Raised(lg.raised)
        ELSE Returned([e1 EXCEPT
                !.loss_value_ = Some(lg.value.loss),
                !.coef = Some(IF e.fit_intercept THEN SubSeq(x, 1, Len(x) - 1) ELSE x),
                !.intercept = Some(IF e.fit_intercept THEN x[Len(x)] ELSE RZero)])

\* What the external optimizer (scipy) may do with the bounds it is handed:
\* it refuses a bounds array whose length differs from that of w0.
OptimizerAccepts(bounds, w0) == bounds = NoneV \/ Len(bounds) = Len(w0)

SparseBoundsArgs ==
    { NoneV,
      << <<-1, 1>>, <<-1, 1>> >>,
      << <<-1, 1>>, <<-1, 1>>, <<-1, 1>> >>,
      << <<1, 0>>, <<0, 1>> >>,        \* lower > upper in the first row
      << <<0, 1>> >> }                 \* one row only

SparseArgs ==
    [family : {"gaussian", "binomial", "gamma"},
     solver : {"lbfgs", "tcn", "newton"},
     fit_intercept : BOOLEAN,
     bounds : SparseBoundsArgs,
     lambda_l2 : 0..1]

MaxEvals == 2       \* callback evaluations the optimizer makes before it returns

\* SparseGLM(...)
SparseConstruct ==
    /\ pc = "new"
    /\ \E a \in SparseArgs :
         /\ args' = a
         /\ est' = SparseGLM_init(a).value
    /\ pc' = "constructed"
    /\ UNCHANGED <<data, irls, hist, opt, kin, kout>>

\* fit(X, y) up to the call of the optimizer
SparseFitCall ==
    /\ pc = "constructed"
    /\ \E d \in Datasets :
         LET r == SparseGLM_fit_call(est, d)
         IN  /\ data' = d
             /\ IF r.raised # ""
                THEN /\ pc' = "fit_error"
                     /\ est' = [est EXCEPT !.err = r.raised]
                     /\ opt' = opt
                ELSE /\ pc' = "optimizing"
                     /\ est' = est
                     /\ opt' = [NoOpt EXCEPT !.calls = opt.calls + 1,
                                             !.routine = r.value.routine,
                                             !.w0 = r.value.w0, !.x = r.value.w0]
    /\ UNCHANGED <<args, irls, hist, kin, kout>>

\* the optimizer refuses its arguments
OptimizerRaises ==
    /\ pc = "optimizing"
    /\ opt.evals = 0
    /\ ~OptimizerAccepts(est.bounds, opt.w0)
    /\ pc' = "fit_error"
    /\ est' = [est EXCEPT !.err = "ValueError"]
    /\ UNCHANGED <<args, data, irls, hist, opt, kin, kout>>

\* the optimizer evaluates the callback at a point of its choice
OptimizerEval ==
    /\ pc = "optimizing"
    /\ OptimizerAccepts(est.bounds, opt.w0)
    /\ opt.evals < MaxEvals
    /\ \E x \in {opt.w0, Ones(Len(opt.w0))} :
         LET lg == loss_and_grad(x, AsFloat2(data.X), AsFloat(data.y),
                                 est.family, est.lambda_l2)
         IN  IF lg.raised # ""
             THEN /\ pc' = "fit_error"
                  /\ est' = [est EXCEPT !.err = lg.raised]
                  /\ opt' = [opt EXCEPT !.evals = @ + 1]
             ELSE /\ pc' = pc
                  /\ est' = est
                  /\ opt' = [opt EXCEPT !.evals = @ + 1, !.x = x]
    /\ UNCHANGED <<args, data, irls, hist, kin, kout>>

\* the optimizer returns its last point and a status (0: converged); fit runs
\* to its end
SparseFitReturn ==
    /\ pc = "optimizing"
    /\ opt.evals >= 1
    /\ \E status \in 0..2 :
         LET r == SparseGLM_fit_store(est, data, opt.routine, opt.x, status)
         IN  /\ opt' = [opt EXCEPT !.status = Some(status), !.evals = @ + 2]
             /\ IF r.raised # ""
                THEN /\ pc' = "fit_error"
                     /\ est' = [est EXCEPT !.err = r.raised]
                ELSE /\ pc' = "fitted"
                     /\ est' = r.value
    /\ UNCHANGED <<args, data, irls, hist, kin, kout>>

NextSparse ==
    \/ SparseConstruct
    \/ SparseFitCall
    \/ OptimizerRaises
    \/ OptimizerEval
    \/ SparseFitReturn

SpecSparse == Init /\ [][NextSparse]_vars

(***************************************************************************)
(* Claims about construct-then-fit sequences.                              *)
(***************************************************************************)
\* bounds is given and is malformed for q fitted coefficients
MalformedBounds(b, q) ==
    /\ b # NoneV
    /\ \/ Len(b) # q
       \/ \E j \in 1..Len(b) : b[j][1] > b[j][2]

\* C3: an unknown family name or an unknown solver name ends in a configuration
\* error before any numeric work: no optimizer call, no loss/gradient
\* evaluation, and the fit does not complete.
C3_UnknownNamesRejectedEarly ==
    (pc # "new" /\ (args.family \notin FAMILIES \/ args.solver \notin SPARSE_SOLVERS))
        => /\ opt.calls = 0
           /\ opt.evals = 0
           /\ pc \in {"constructed", "config_error", "fit_error"}

\* C4: malformed bounds (lower > upper in a row, or a row count other than the
\* number of fitted coefficients) never reach the external optimizer.
C4_MalformedBoundsRejectedEarly ==
    (pc \notin {"new", "constructed"}
     /\ MalformedBounds(args.bounds, Len(data.X[1]) + (IF args.fit_intercept THEN 1 ELSE 0)))
        => opt.calls = 0

\* C6: when fit has returned after the optimizer ('lbfgs' or 'tcn') reported a
\* status other than success, nothing was raised, the optimizer ran once, and
\* the estimator holds the coefficients it returned and a record carrying its
\* status.
C6_OptimizerStatusPassedThrough ==
    (pc = "fitted" /\ opt.status # Some(0))
        => /\ est.err = ""
           /\ opt.calls = 1
           /\ (IF est.fit_intercept THEN est.coef[1] \o est.intercept ELSE est.coef[1]) = opt.x
           /\ est.info_ # NoneV
           /\ est.info_[1].warnflag = opt.status[1]

(***************************************************************************)
(* SpecKernel: the functions of src/firls/sparse/glm.py, applied to inputs *)
(* drawn by the initial state.                                             *)
(***************************************************************************)
\* _intercept_dot(w, X)
intercept_dot(w, X) ==
    LET c == IF Len(w) = Len(X[1]) + 1 THEN w[Len(w)] ELSE RZero
        w1 == SubSeq(w, 1, Len(w) - 1)
    IN  IF Len(w1) # Len(X[1])
        THEN Raised("ValueError")           \* X @ w: the shapes are not aligned
        ELSE Returned([w |-> w1, c |-> c,
                       z |-> [i \in 1..Len(X) |-> Dot(X[i], w1) + c]])

\* A call of _intercept_dot with the positional arguments argv.
call_intercept_dot(argv) ==
    IF Len(argv) # 2
    THEN Raised("TypeError")                \* takes 2 positional arguments
    ELSE intercept_dot(argv[1], argv[2])

\* _glm_loss_and_grad(w, X, y, alpha, familly, r, sample_weight).  The gaussian
\* branch is computed; the branches of the other families go through exp / log
\* and are kept as a tag naming the family.
glm_loss_and_grad(w, X, y, alpha, familly, sample_weight) ==
    LET n_samples == Len(X)
        n_features == Len(X[1])
        d == call_intercept_dot(<<w, X, y>>)
        sw == IF sample_weight = NoneV THEN Ones(n_samples) ELSE sample_weight
    IN  IF d.raised # ""
        THEN Raised(d.raised)
        ELSE IF familly = "gaussian"
        THEN LET mu == d.value.z
                 out == SeqSum([i \in 1..n_samples |->
                                   RMul(sw[i], RMul(y[i] - mu[i], y[i] - mu[i]))])
                        + RMul(Fx(1, 2), RMul(alpha, Dot(d.value.w, d.value.w)))
                 z0 == [i \in 1..n_samples |-> -RMul(sw[i], y[i] - mu[i])]
             IN  Returned([out |-> out,
                           grad |-> [j \in 1..Len(w) |->
                              IF j <= n_features
                              THEN SeqSum([i \in 1..n_samples |-> RMul(X[i][j], z0[i])])
                                   + RMul(alpha, d.value.w[j])
                              ELSE SeqSum(z0)]])
        ELSE IF familly \in {"binomial", "poisson", "negativebinomial"}
        THEN Returned([out |-> <<familly>>, grad |-> <<familly>>])
        ELSE Raised("UnboundLocalError")    \* z0 is read without a value

MaxCoef == 1        \* the entries of w range over -1..MaxCoef

KernelInputs ==
    [w : UNION {[1..k -> -1..MaxCoef] : k \in 2..3},
     X : { << <<1, 0>>, <<1, 2>> >>, << <<2, -1>>, <<0, 1>> >> },
     y : { <<1, 2>>, <<0, -1>> },
     alpha : 0..1,
     familly : {"gaussian", "binomial"},
     sample_weight : {NoneV, <<1, 2>>}]

InitKernel ==
    /\ pc = "ready"
    /\ kin \in KernelInputs
    /\ kout = NoneV
    /\ args = NoneV
    /\ est = NoEstimator
    /\ data = NoneV
    /\ irls = NoIrls
    /\ hist = NoHist
    /\ opt = NoOpt

ApplyInterceptDot ==
    /\ pc = "ready"
    /\ kout' = call_intercept_dot(<<AsFloat(kin.w), AsFloat2(kin.X)>>)
    /\ pc' = "dot_done"
    /\ UNCHANGED <<args, est, data, irls, hist, opt, kin>>

ApplyLossAndGrad ==
    /\ pc = "ready"
    /\ kout' = glm_loss_and_grad(AsFloat(kin.w), AsFloat2(kin.X), AsFloat(kin.y),
                                 float(kin.alpha), kin.familly,
                                 IF kin.sample_weight = NoneV THEN NoneV
                                 ELSE AsFloat(kin.sample_weight))
    /\ pc' = "loss_done"
    /\ UNCHANGED <<args, est, data, irls, hist, opt, kin>>

NextKernel ==
    \/ ApplyInterceptDot
    \/ ApplyLossAndGrad

SpecKernel == InitKernel /\ [][NextKernel]_vars

(***************************************************************************)
(* Claims about the kernel functions.                                      *)
(***************************************************************************)
\* C7: for w of length p+1 the predictor is z = X*w[0..p-1] + w[p], returned with
\* the weight sub-vector w[0..p-1] and the intercept w[p]; for w of length p it
\* is z = X*w, returned with w itself and the intercept 0.
C7_InterceptDot ==
    (pc = "dot_done")
        => LET p == Len(kin.X[1])
               w == AsFloat(kin.w)
               X == AsFloat2(kin.X)
           IN  /\ Len(w) = p + 1
                     => /\ kout.raised = ""
                        /\ kout.value.w = SubSeq(w, 1, p)
                        /\ kout.value.c = w[p + 1]
                        /\ kout.value.z
                              = [i \in 1..Len(X) |-> Dot(X[i], SubSeq(w, 1, p)) + w[p + 1]]
               /\ Len(w) = p
                     => /\ kout.raised = ""
                        /\ kout.value.w = w
                        /\ kout.value.c = RZero
                        /\ kout.value.z = [i \in 1..Len(X) |-> Dot(X[i], w)]

\* C8: for the gaussian family the callback returns the loss
\* sum_i weight_i*(y_i - z_i)^2 + 0.5*lambda_l2*||w||^2 and its exact gradient:
\* X'(-2*weight*(y - z)) + lambda_l2*w on the weights, sum_i -2*weight_i*(y_i - z_i)
\* on the intercept; the intercept is not penalised.
C8_GaussianLossAndGrad ==
    (pc = "loss_done" /\ kin.familly = "gaussian")
        => LET p == Len(kin.X[1])
               w == AsFloat(kin.w)
               X == AsFloat2(kin.X)
               y == AsFloat(kin.y)
               sw == IF kin.sample_weight = NoneV THEN Ones(Len(X))
                     ELSE AsFloat(kin.sample_weight)
               ww == SubSeq(w, 1, p)
               c == IF Len(w) = p + 1 THEN w[p + 1] ELSE RZero
               res == [i \in 1..Len(X) |-> y[i] - (Dot(X[i], ww) + c)]
               dz == [i \in 1..Len(X) |-> -2 * RMul(sw[i], res[i])]
           IN  /\ kout.raised = ""
               /\ kout.value.out
                     = SeqSum([i \in 1..Len(X) |-> RMul(sw[i], RMul(res[i], res[i]))])
                       + RMul(Fx(1, 2), RMul(float(kin.alpha), Dot(ww, ww)))
               /\ kout.value.grad
                     = [j \in 1..Len(w) |->
                          IF j <= p
                          THEN SeqSum([i \in 1..Len(X) |-> RMul(X[i][j], dz[i])])
                               + RMul(float(kin.alpha), w[j])
                          ELSE SeqSum(dz)]

====
